---- MODULE Spec2Model ----
(***************************************************************************)
(* Order-status reconciliation of the merchant orders view                 *)
(* (src/src/pages/OrdersPage.tsx): the query cache of the order listing,   *)
(* the status and payment mutations with their callbacks, the live-update  *)
(* message handler, the page/filter state and the pickup marker timer.     *)
(*                                                                         *)
(* The view runs on one event loop.  A callback chain of a mutation        *)
(* (onMutate then mutationFn; onSuccess/onError then onSettled) is only    *)
(* separated by promise continuations, so no other event runs inside it:   *)
(* `running` holds the mutation whose chain is executing.                  *)
(*                                                                         *)
(* The query cache is the default QueryClient of App.tsx:12: staleTime 0,  *)
(* invalidateQueries refetches the observed (active) query and replaces a  *)
(* fetch that is in flight, cancelQueries drops every fetch in flight, and *)
(* useMutation hands the callbacks of the latest render to the mutation    *)
(* the hook started last while that mutation is pending.                   *)
(*                                                                         *)
(* Around the view: the session of AuthProvider (state in memory, its copy *)
(* in localStorage, the persistence effect), the response interceptor of   *)
(* services/api.ts, the routes of App.tsx and the live-update connections  *)
(* opened by the effect of the orders view.  Spec and SpecLive are the     *)
(* mounted orders view, SpecWs the connections across mounts, SpecAuth the *)
(* session.                                                                *)
(***************************************************************************)
EXTENDS Integers, Sequences, FiniteSets, TLC

\* ---------------------------------------------------------------- bounds
NumTracked == 2      \* orders of the backend that still can be acted upon
NumFiller == 9       \* completed (PICKED_UP, PAID) orders behind them
MaxMut == 2          \* mutations started in one behaviour
NumTokens == 2       \* tokens the backend issues
NumMerchants == 2    \* values of the merchant profile
MaxEffects == 2      \* instances of the live-update effect in one document
MaxAttempts == 2     \* connection attempts counted per instance
NumFood == 2         \* food items of the menu
MaxRev == 2          \* revisions of one food item
MaxTotal == 35       \* total of a listing response
MaxDigits == 16      \* digits typed after the first character of a phone value

\* ------------------------------------------------------ program constants
PageLimit == 10      \* limit: 10, data.total > 10, Math.ceil(data.total / 10)
PickupDelay == 2000  \* setTimeout(() => setPickupOrder(null), 2000)
ReconnectDelay == 5000 \* setTimeout(connectWebSocket, 5000)

FilterValues == {"", "PENDING"}
MessageTypes == {"ORDER_UPDATED", "PING"}
TimeSteps == {1000}

Tracked == 1..NumTracked
AllOrders == 1..(NumTracked + NumFiller)
NoOrder == 0

Min(a, b) == IF a < b THEN a ELSE b
Max(a, b) == IF a > b THEN a ELSE b

\* a page count that rounds down
PageCountFloor(total) == total \div PageLimit

\* Math.ceil(total / 10)
PageCount(total) == (total + PageLimit - 1) \div PageLimit

MaxPage == PageCount(NumTracked + NumFiller)
Keys == [page : 1..MaxPage, filter : FilterValues]

\* the value of a cache entry that holds no data
Undefined == [defined |-> FALSE, orders |-> <<>>, total |-> 0]

VARIABLES
  srvStatus,     \* backend: status of every order
  srvPay,        \* backend: paymentStatus of every order
  currentPage,   \* useState(1)
  selectedStatus,\* useState('')
  pickupOrder,   \* useState(null): the order carrying the removal marker
  cache,         \* query cache: ['merchant-orders', page, status] -> data
  fetch,         \* per cache entry: the fetch in flight and its response
  zombie,        \* a cancelled listing request is still on the network
  muts,          \* the mutations started so far, in order
  running,       \* mutation whose callback chain is executing, 0 if none
  authState,     \* AuthProvider useState: {token, user, merchant}
  storage,       \* localStorage item 'auth'
  authDirty,     \* authState was set and the persistence effect has not run yet
  location,      \* the route the router is at
  navPending,    \* window.location.href was assigned, the document not yet replaced
  loginForm,     \* LoginPage useState: isLoading, error
  loginReq,      \* POST /api/auth/login in flight
  profileReq,    \* PUT /api/merchants/profile in flight: the merchant data sent
  ws,            \* per instance of the live-update effect: its variable `ws`
  wsEffect,      \* the instance of the live-update effect that is set up, 0 if none
  numEffects,    \* instances of the live-update effect set up in this document
  axiosAuth,     \* axios.defaults.headers.common['Authorization']
  callAuth,      \* the call issued last by a form or by the mount of the orders view
  toast,         \* the toast on screen
  food,          \* the menu: the item list, the operation in flight, how its failure showed
  paging,        \* a listing response and a page number: the pagination controls drawn
  profileForm    \* ProfilePage: the phone field and the error shown on submit

\* the orders view
viewVars == <<srvStatus, srvPay, currentPage, selectedStatus, pickupOrder, cache,
              fetch, zombie, muts, running>>

\* the session, the router and the live-update connections
sessionVars == <<authState, storage, authDirty, location, navPending, loginForm,
                 loginReq, profileReq, ws, wsEffect, numEffects>>

\* the Authorization header of the API calls
headerVars == <<axiosAuth, callAuth>>

\* the toast, the menu, the pagination controls and the profile form
pageVars == <<toast, food, paging, profileForm>>

vars == <<srvStatus, srvPay, currentPage, selectedStatus, pickupOrder, cache,
          fetch, zombie, muts, running, authState, storage, authDirty, location,
          navPending, loginForm, loginReq, profileReq, ws, wsEffect, numEffects,
          axiosAuth, callAuth, toast, food, paging, profileForm>>

CurKey == [page |-> currentPage, filter |-> selectedStatus]

\* ------------------------------------------------------------- backend
SrvOrder(i) == [id |-> i, status |-> srvStatus[i], paymentStatus |-> srvPay[i]]

SrvList == [i \in AllOrders |-> SrvOrder(i)]

\* GET /api/orders/merchant?status&page&limit -> {orders, total}
GetOrders(k) ==
  LET Match(o) == k.filter = "" \/ o.status = k.filter
      all == SelectSeq(SrvList, Match)
  IN [defined |-> TRUE,
      orders |-> SubSeq(all, (k.page - 1) * PageLimit + 1,
                        Min(k.page * PageLimit, Len(all))),
      total |-> Len(all)]

\* ---------------------------------------------------------- query cache
\* the fetch state of a cache entry; preMut marks a fetch that was in flight
\* when a status mutation started
Idle == [st |-> "idle", data |-> Undefined, preMut |-> FALSE]
Sent == [st |-> "sent", data |-> Undefined, preMut |-> FALSE]

Fetching(f, k) == f[k].st # "idle"

\* the observer of a key that was just selected fetches unless a fetch of
\* that key is already in flight
FetchOnMount(f, k) == IF Fetching(f, k) THEN f ELSE [f EXCEPT ![k] = Sent]

\* queryClient.invalidateQueries({queryKey: ['merchant-orders']}): refetch the
\* active query; a fetch in flight is replaced when the entry has data (the
\* replaced request has no further effect and leaves the model)
InvalidateQueries(f, c, k) ==
  IF Fetching(f, k) /\ ~c[k].defined THEN f ELSE [f EXCEPT ![k] = Sent]

\* cancelQueries left out of onMutate: the fetches in flight go on
CancelQueriesSkipped(f) == f

\* queryClient.cancelQueries({queryKey: ['merchant-orders']}): every fetch in
\* flight, of any page and filter, is cancelled
CancelQueries(f) == [k \in Keys |-> Idle]

\* isLoading of useQuery: no data yet and a fetch in flight
IsLoading == ~cache[CurKey].defined /\ Fetching(fetch, CurKey)

\* ---------------------------------------------------------------- session
NoToken == 0         \* token: null
NoMerchant == 0      \* merchant: null, user: null
Tokens == 1..NumTokens
Merchants == 1..NumMerchants

\* { token: null, user: null, merchant: null }
NoSession == [token |-> NoToken, user |-> NoMerchant, merchant |-> NoMerchant]

\* what a successful login stores: data.token, data.user, data.merchant
LoginData(t) == [token |-> t, user |-> t, merchant |-> 1]

\* localStorage.getItem('auth') of an absent item
NoItem == <<>>

\* JSON.stringify(authState): the text of the three members, in order
JSONStringify(a) == <<"token", a.token, "user", a.user, "merchant", a.merchant>>

\* JSON.parse(savedAuth)
JSONParse(text) == [token |-> text[2], user |-> text[4], merchant |-> text[6]]

\* isAuthenticated: !!authState.token
IsAuthenticated == authState.token # NoToken

ProtectedRoutes == {"/", "/food-items", "/orders", "/profile"}
AppRoutes == ProtectedRoutes \cup {"/login"}

\* the page element of a route below the layout
PageOf(r) ==
  CASE r = "/" -> "DashboardPage"
    [] r = "/food-items" -> "FoodItemsPage"
    [] r = "/orders" -> "OrdersPage"
    [] r = "/profile" -> "ProfilePage"

ProtectedViews == {PageOf(r) : r \in ProtectedRoutes}

\* a route guard that renders its children whatever the session is
ProtectedRouteOpen(isAuthenticated, children) == children

\* ProtectedRoute
ProtectedRoute(isAuthenticated, children) ==
  IF ~isAuthenticated THEN "Navigate" ELSE children

\* Routes: the element rendered at a location
RouteElement(r, isAuthenticated) ==
  IF r = "/login" THEN "LoginPage"
  ELSE ProtectedRoute(isAuthenticated, PageOf(r))

\* what is on screen
View == RouteElement(location, IsAuthenticated)

\* ------------------------------------------------- live-update connection
\* the variable `ws` of an instance of the effect and what hangs on it: the
\* token in the URL, the socket's state, the reconnect timers set by onclose,
\* the message the socket is about to deliver, the calls of connectWebSocket
NoSocket == [token |-> NoToken, st |-> "none", timers |-> <<>>, inbox |-> "none",
             attempt |-> 0]

\* new WebSocket(`${WS_URL}/orders?token=${token}`)
NewSocket(old, token) ==
  [token |-> token, st |-> "connecting", timers |-> old.timers, inbox |-> "none",
   attempt |-> Min(old.attempt + 1, MaxAttempts)]

Live(sock) == sock.st \in {"connecting", "open"}

\* the listing key of a freshly mounted orders view
FirstKey == [page |-> 1, filter |-> ""]

\* ------------------------------------------------- Authorization header
\* no Authorization header
NoHeader == <<>>

\* `Bearer ${token}`
Bearer(token) == <<"Bearer", token>>

\* the persistence effect of AuthProvider sets or deletes the default header
DefaultHeader(a) == IF a.token # NoToken THEN Bearer(a.token) ELSE NoHeader

\* a request interceptor that leaves the header to the defaults
RequestInterceptorDefaultsOnly(item, header) == header

\* axios.interceptors.request.use: the header of a call, from the stored
\* session read when the call is issued; header is what the defaults gave it
RequestInterceptor(item, header) ==
  IF item # NoItem
  THEN LET token == JSONParse(item).token
       IN IF token # NoToken THEN Bearer(token) ELSE header
  ELSE header

\* no API call was issued in this document
NoCall == [issued |-> FALSE, authorization |-> NoHeader]

\* an API call is issued
Call(item, header) ==
  [issued |-> TRUE, authorization |-> RequestInterceptor(item, header)]

\* ------------------------------------------------ initial page state
\* no toast on screen
NoToast == "none"

\* no food item operation in flight
NoOp == [via |-> "none", kind |-> "none", id |-> 0]

\* the menu of a merchant with no item
NoFood == [items |-> [i \in 1..NumFood |-> 0], op |-> NoOp, error |-> "", alert |-> FALSE,
           raised |-> FALSE]

\* no listing response drawn
NoControls == [shown |-> FALSE, current |-> 0, pages |-> 0, prevDisabled |-> FALSE,
               nextDisabled |-> FALSE, nextDisabledCopy |-> FALSE]

NoPaging == [data |-> Undefined, page |-> 1, drawn |-> FALSE, controls |-> NoControls]

\* the profile form before the phone field is filled in
NoProfileForm == [phone |-> <<>>, error |-> "", submitted |-> FALSE]

\* ----------------------------------------------------------------- Init
\* the open orders the backend starts with: pending and confirmed in turn
InitialStatus(i) == IF i % 2 = 1 THEN "PENDING" ELSE "CONFIRMED"

Init ==
  /\ srvStatus \in {f \in [AllOrders -> {"PENDING", "CONFIRMED", "PICKED_UP"}] :
                      /\ \A i \in AllOrders \ Tracked : f[i] = "PICKED_UP"
                      /\ \A i \in Tracked : f[i] = InitialStatus(i)}
  /\ srvPay = [i \in AllOrders |-> IF i \in Tracked THEN "PENDING" ELSE "PAID"]
  /\ currentPage = 1
  /\ selectedStatus = ""
  /\ pickupOrder = NoOrder
  /\ cache = [k \in Keys |-> Undefined]
  /\ fetch = [k \in Keys |-> IF k = [page |-> 1, filter |-> ""] THEN Sent ELSE Idle]
  /\ zombie = FALSE
  /\ muts = <<>>
  /\ running = 0
  /\ authState = LoginData(1)
  /\ storage = JSONStringify(LoginData(1))
  /\ authDirty = FALSE
  /\ location = "/orders"
  /\ navPending = FALSE
  /\ loginForm = [isLoading |-> FALSE, error |-> ""]
  /\ loginReq = "none"
  /\ profileReq = NoMerchant
  /\ ws = [e \in 1..MaxEffects |->
             IF e = 1 THEN [NewSocket(NoSocket, 1) EXCEPT !.st = "open"] ELSE NoSocket]
  /\ wsEffect = 1
  /\ numEffects = 1
  /\ axiosAuth = DefaultHeader(LoginData(1))
  /\ callAuth = Call(JSONStringify(LoginData(1)), DefaultHeader(LoginData(1)))
  /\ toast = NoToast
  /\ food = NoFood
  /\ paging = NoPaging
  /\ profileForm = NoProfileForm

\* ------------------------------------------------------------ mutations
InFlight(m) == muts[m].phase \in {"onMutate", "sent", "applied"}

\* the mutation the updateOrderStatus hook started last (0 if none)
CurrentStatusMut ==
  LET S == {m \in DOMAIN muts : muts[m].kind = "status"}
  IN IF S = {} THEN 0 ELSE CHOOSE m \in S : \A x \in S : x <= m

\* a render with a new page or filter hands its callbacks, which close over
\* that page and filter, to the pending mutation the hook started last
Rerender(ms, k) ==
  [m \in DOMAIN ms |->
     IF m = CurrentStatusMut /\ InFlight(m) THEN [ms[m] EXCEPT !.optKey = k]
     ELSE ms[m]]

\* an updater that hands the old value back
OptimisticPatchSkipped(old, orderId, status) == old

\* the updater passed to setQueryData in onMutate
OptimisticPatch(old, orderId, status) ==
  IF ~old.defined THEN old
  ELSE [old EXCEPT !.orders =
          [i \in DOMAIN old.orders |->
             IF old.orders[i].id = orderId
             THEN [old.orders[i] EXCEPT !.status = status]
             ELSE old.orders[i]]]

Shown(k) == {cache[k].orders[i] : i \in DOMAIN cache[k].orders}

\* updateOrderStatus.onMutate
OnMutate(orderId, status) ==
  LET previousOrders == cache[CurKey]
      m == [kind |-> "status", orderId |-> orderId, status |-> status,
            key |-> CurKey, optKey |-> CurKey, snapshot |-> previousOrders,
            phase |-> "onMutate", outcome |-> "none",
            timer |-> IF status = "PICKED_UP" THEN PickupDelay ELSE -1,
            invalidated |-> FALSE]
      left == CancelQueries(fetch)
  IN /\ fetch' = [k \in Keys |-> IF Fetching(left, k)
                                 THEN [left[k] EXCEPT !.preMut = TRUE] ELSE Idle]
     /\ zombie' = (zombie \/ \E k \in Keys : Fetching(fetch, k) /\ ~Fetching(left, k))
     /\ pickupOrder' = IF status = "PICKED_UP" THEN orderId ELSE pickupOrder
     /\ cache' = [cache EXCEPT ![CurKey] = OptimisticPatch(@, orderId, status)]
     /\ muts' = Append(muts, m)
     /\ running' = Len(muts) + 1

\* action buttons that offer the cancellation whatever the status is
StatusButtonCancelAny(order, status) ==
  \/ order.status = "PENDING" /\ status = "CONFIRMED"
  \/ order.status = "CONFIRMED" /\ status = "PICKED_UP"
  \/ status = "CANCELLED"

\* renderActionButtons: the buttons an order of the displayed list offers
StatusButton(order, status) ==
  \/ order.status = "PENDING" /\ status = "CONFIRMED"
  \/ order.status = "CONFIRMED" /\ status = "PICKED_UP"
  \/ order.status = "PENDING" /\ status = "CANCELLED"

PaymentButton(order) == order.paymentStatus = "PENDING"

CanClick == running = 0 /\ ~IsLoading /\ cache[CurKey].defined

\* updateOrderStatus.mutate({orderId, status}) from a button
MutateStatus(orderId, status) ==
  /\ CanClick
  /\ Len(muts) < MaxMut
  /\ \E order \in Shown(CurKey) : order.id = orderId /\ StatusButton(order, status)
  /\ OnMutate(orderId, status)
  /\ UNCHANGED <<srvStatus, srvPay, currentPage, selectedStatus>>
  /\ UNCHANGED sessionVars
  /\ UNCHANGED <<headerVars, pageVars>>

\* updatePaymentStatus.mutate({orderId}) from a button: the hook has no onMutate
MutatePayment(orderId) ==
  /\ CanClick
  /\ Len(muts) < MaxMut
  /\ \E order \in Shown(CurKey) : order.id = orderId /\ PaymentButton(order)
  /\ muts' = Append(muts, [kind |-> "payment", orderId |-> orderId, status |-> "PAID",
                           key |-> CurKey, optKey |-> CurKey, snapshot |-> Undefined,
                           phase |-> "onMutate", outcome |-> "none", timer |-> -1,
                           invalidated |-> FALSE])
  /\ running' = Len(muts) + 1
  /\ UNCHANGED <<srvStatus, srvPay, currentPage, selectedStatus, pickupOrder, cache,
                 fetch, zombie>>
  /\ UNCHANGED sessionVars
  /\ UNCHANGED <<headerVars, pageVars>>

\* mutationFn: api.updateOrderStatus / api.updateOrderPaymentStatus is called
MutationFn(m) ==
  /\ m \in DOMAIN muts
  /\ running = m
  /\ muts[m].phase = "onMutate"
  /\ muts' = [muts EXCEPT ![m].phase = "sent"]
  /\ running' = 0
  /\ UNCHANGED <<srvStatus, srvPay, currentPage, selectedStatus, pickupOrder, cache,
                 fetch, zombie>>
  /\ UNCHANGED sessionVars
  /\ UNCHANGED <<headerVars, pageVars>>

\* the backend carries out PATCH /api/orders/:id/status or /payment
ServerApply(m) ==
  /\ m \in DOMAIN muts
  /\ muts[m].phase = "sent"
  /\ IF muts[m].kind = "status"
     THEN /\ srvStatus' = [srvStatus EXCEPT ![muts[m].orderId] = muts[m].status]
          /\ UNCHANGED srvPay
     ELSE /\ srvPay' = [srvPay EXCEPT ![muts[m].orderId] = "PAID"]
          /\ UNCHANGED srvStatus
  /\ muts' = [muts EXCEPT ![m].phase = "applied"]
  /\ UNCHANGED <<currentPage, selectedStatus, pickupOrder, cache, fetch, zombie, running>>
  /\ UNCHANGED sessionVars
  /\ UNCHANGED <<headerVars, pageVars>>

\* updatePaymentStatus.onSuccess
OnSuccessPayment(m) ==
  /\ fetch' = InvalidateQueries(fetch, cache, CurKey)
  /\ muts' = [muts EXCEPT ![m].phase = "success", ![m].outcome = "ok",
                          ![m].invalidated = TRUE]

\* the request of mutation m resolves; updateOrderStatus has no onSuccess
Resolve(m) ==
  /\ m \in DOMAIN muts
  /\ running = 0
  /\ muts[m].phase = "applied"
  /\ IF muts[m].kind = "payment"
     THEN /\ OnSuccessPayment(m)
     ELSE /\ muts' = [muts EXCEPT ![m].phase = "success", ![m].outcome = "ok"]
          /\ UNCHANGED fetch
  /\ running' = m
  /\ UNCHANGED <<srvStatus, srvPay, currentPage, selectedStatus, pickupOrder, cache,
                 zombie>>
  /\ UNCHANGED sessionVars
  /\ UNCHANGED <<headerVars, pageVars>>

\* a failure handler that restores the snapshot and leaves the marker alone
OnErrorMarkerKept(m) ==
  /\ cache' = IF muts[m].snapshot.defined
              THEN [cache EXCEPT ![muts[m].optKey] = muts[m].snapshot]
              ELSE cache
  /\ pickupOrder' = pickupOrder

\* updateOrderStatus.onError
OnError(m) ==
  /\ cache' = IF muts[m].snapshot.defined
              THEN [cache EXCEPT ![muts[m].optKey] = muts[m].snapshot]
              ELSE cache
  /\ pickupOrder' = NoOrder

\* the request of mutation m is rejected; updatePaymentStatus has no onError
Reject(m) ==
  /\ m \in DOMAIN muts
  /\ running = 0
  /\ muts[m].phase = "sent"
  /\ IF muts[m].kind = "status"
     THEN OnError(m)
     ELSE UNCHANGED <<cache, pickupOrder>>
  /\ muts' = [muts EXCEPT ![m].phase = "error", ![m].outcome = "err"]
  /\ running' = m
  /\ UNCHANGED <<srvStatus, srvPay, currentPage, selectedStatus, fetch, zombie>>
  /\ UNCHANGED sessionVars
  /\ UNCHANGED <<headerVars, pageVars>>

\* a mutation whose callbacks have all run: its context is released
Finished(mut) ==
  [mut EXCEPT !.phase = "done", !.snapshot = Undefined, !.optKey = mut.key]

\* the invalidation placed in onSuccess instead of onSettled
OnSettledOnSuccessOnly(m) ==
  IF muts[m].outcome = "ok"
  THEN /\ fetch' = InvalidateQueries(fetch, cache, CurKey)
       /\ muts' = [muts EXCEPT ![m] = [Finished(@) EXCEPT !.invalidated = TRUE]]
  ELSE /\ fetch' = fetch
       /\ muts' = [muts EXCEPT ![m] = Finished(@)]

\* updateOrderStatus.onSettled
OnSettled(m) ==
  /\ fetch' = InvalidateQueries(fetch, cache, CurKey)
  /\ muts' = [muts EXCEPT ![m] = [Finished(@) EXCEPT !.invalidated = TRUE]]

\* the end of the callback chain of mutation m; updatePaymentStatus has no
\* onSettled
Settle(m) ==
  /\ m \in DOMAIN muts
  /\ running = m
  /\ muts[m].phase \in {"success", "error"}
  /\ IF muts[m].kind = "status"
     THEN OnSettled(m)
     ELSE /\ muts' = [muts EXCEPT ![m] = Finished(@)]
          /\ UNCHANGED fetch
  /\ running' = 0
  /\ UNCHANGED <<srvStatus, srvPay, currentPage, selectedStatus, pickupOrder, cache,
                 zombie>>
  /\ UNCHANGED sessionVars
  /\ UNCHANGED <<headerVars, pageVars>>

\* -------------------------------------------------- listing requests
\* the backend answers a listing request from its state at that moment
FetchServe(k) ==
  /\ fetch[k].st = "sent"
  /\ fetch' = [fetch EXCEPT ![k].st = "served", ![k].data = GetOrders(k)]
  /\ UNCHANGED <<srvStatus, srvPay, currentPage, selectedStatus, pickupOrder, cache,
                 zombie, muts, running>>
  /\ UNCHANGED sessionVars
  /\ UNCHANGED <<headerVars, pageVars>>

\* the response of the fetch of an entry arrives: useQuery stores it
FetchResponse(k) ==
  /\ running = 0
  /\ fetch[k].st = "served"
  /\ cache' = [cache EXCEPT ![k] = fetch[k].data]
  /\ fetch' = [fetch EXCEPT ![k] = Idle]
  /\ UNCHANGED <<srvStatus, srvPay, currentPage, selectedStatus, pickupOrder,
                 zombie, muts, running>>
  /\ UNCHANGED sessionVars
  /\ UNCHANGED <<headerVars, pageVars>>

\* the responses of the cancelled listing requests arrive: they are ignored
CancelledResponse ==
  /\ running = 0
  /\ zombie
  /\ zombie' = FALSE
  /\ UNCHANGED <<srvStatus, srvPay, currentPage, selectedStatus, pickupOrder, cache,
                 fetch, muts, running>>
  /\ UNCHANGED sessionVars
  /\ UNCHANGED <<headerVars, pageVars>>

\* a listing request fails: the entry keeps the data it has
FetchError(k) ==
  /\ running = 0
  /\ fetch[k].st = "sent"
  /\ fetch' = [fetch EXCEPT ![k] = Idle]
  /\ UNCHANGED <<srvStatus, srvPay, currentPage, selectedStatus, pickupOrder, cache,
                 zombie, muts, running>>
  /\ UNCHANGED sessionVars
  /\ UNCHANGED <<headerVars, pageVars>>

\* ------------------------------------------------------ page and filter
\* setSelectedStatus(status) from the filter
SetSelectedStatus(status) ==
  /\ running = 0
  /\ ~IsLoading
  /\ status # selectedStatus
  /\ selectedStatus' = status
  /\ fetch' = FetchOnMount(fetch, [page |-> currentPage, filter |-> status])
  /\ muts' = Rerender(muts, [page |-> currentPage, filter |-> status])
  /\ UNCHANGED <<srvStatus, srvPay, currentPage, pickupOrder, cache, running,
                 zombie>>
  /\ UNCHANGED sessionVars
  /\ UNCHANGED <<headerVars, pageVars>>

SetCurrentPage(p) ==
  /\ p # currentPage
  /\ currentPage' = p
  /\ fetch' = FetchOnMount(fetch, [page |-> p, filter |-> selectedStatus])
  /\ muts' = Rerender(muts, [page |-> p, filter |-> selectedStatus])
  /\ UNCHANGED <<srvStatus, srvPay, selectedStatus, pickupOrder, cache, running,
                 zombie>>
  /\ UNCHANGED sessionVars
  /\ UNCHANGED <<headerVars, pageVars>>

\* data && data.total > 10
ShowsPagination(data) == data.defined /\ data.total > PageLimit

\* disabled={currentPage === 1}
PrevDisabled(page) == page = 1

\* disabled={currentPage === Math.ceil(data.total / 10)}
NextDisabled(data, page) == page = PageCount(data.total)

\* the same control in the second copy of the view:
\* disabled={currentPage >= Math.ceil(data.total / 10)}
NextDisabledCopy(data, page) == page >= PageCount(data.total)

PaginationShown == ShowsPagination(cache[CurKey])

\* the previous control: setCurrentPage((p) => Math.max(1, p - 1))
PrevPage ==
  /\ running = 0
  /\ ~IsLoading
  /\ PaginationShown
  /\ ~PrevDisabled(currentPage)
  /\ SetCurrentPage(Max(1, currentPage - 1))

\* the next control: setCurrentPage((p) => Math.min(Math.ceil(data.total / 10), p + 1))
NextPage ==
  /\ running = 0
  /\ ~IsLoading
  /\ PaginationShown
  /\ ~NextDisabled(cache[CurKey], currentPage)
  /\ SetCurrentPage(Min(PageCount(cache[CurKey].total), currentPage + 1))

\* ---------------------------------------------------------- live updates
\* a message handler that invalidates whatever the type of the message is
OnMessageAnyType(type) ==
  IF View = "OrdersPage" THEN InvalidateQueries(fetch, cache, CurKey) ELSE fetch

\* the body of ws.onmessage: the fetches after it has run (invalidateQueries
\* refetches a listing only while the orders view observes one)
OnMessage(type) ==
  IF type = "ORDER_UPDATED" /\ View = "OrdersPage"
  THEN InvalidateQueries(fetch, cache, CurKey)
  ELSE fetch

\* ws.onmessage on the connection of the displayed orders view
WsOnMessage(type) ==
  /\ running = 0
  /\ fetch' = OnMessage(type)
  /\ UNCHANGED <<srvStatus, srvPay, currentPage, selectedStatus, pickupOrder, cache,
                 zombie, muts, running>>
  /\ UNCHANGED sessionVars
  /\ UNCHANGED <<headerVars, pageVars>>

\* ---------------------------------------------------------------- timers
Timers == {m \in DOMAIN muts : muts[m].timer >= 0}

\* time passes, not beyond a timer that is due
Advance(d) ==
  /\ running = 0
  /\ Timers # {}
  /\ \A m \in Timers : muts[m].timer >= d
  /\ muts' = [m \in DOMAIN muts |->
                IF m \in Timers THEN [muts[m] EXCEPT !.timer = @ - d] ELSE muts[m]]
  /\ UNCHANGED <<srvStatus, srvPay, currentPage, selectedStatus, pickupOrder, cache,
                 fetch, zombie, running>>
  /\ UNCHANGED sessionVars
  /\ UNCHANGED <<headerVars, pageVars>>

\* the callback of the timer onMutate set: setPickupOrder(null)
PickupTimeout(m) ==
  /\ m \in DOMAIN muts
  /\ running = 0
  /\ muts[m].timer = 0
  /\ pickupOrder' = NoOrder
  /\ muts' = [muts EXCEPT ![m].timer = -1]
  /\ UNCHANGED <<srvStatus, srvPay, currentPage, selectedStatus, cache, fetch, zombie, running>>
  /\ UNCHANGED sessionVars
  /\ UNCHANGED <<headerVars, pageVars>>

Statuses == {"PENDING", "CONFIRMED", "PICKED_UP", "CANCELLED"}

\* the steps of the mutations and of the listing requests
Requests ==
  \/ \E o \in Tracked, s \in Statuses : MutateStatus(o, s)
  \/ \E o \in Tracked : MutatePayment(o)
  \/ \E m \in 1..MaxMut : MutationFn(m)
  \/ \E m \in 1..MaxMut : ServerApply(m)
  \/ \E m \in 1..MaxMut : Resolve(m)
  \/ \E m \in 1..MaxMut : Reject(m)
  \/ \E m \in 1..MaxMut : Settle(m)
  \/ \E k \in Keys : FetchServe(k)
  \/ \E k \in Keys : FetchResponse(k)
  \/ CancelledResponse
  \/ \E t \in MessageTypes : WsOnMessage(t)
  \/ \E d \in TimeSteps : Advance(d)
  \/ \E m \in 1..MaxMut : PickupTimeout(m)

\* the orders view of a merchant who is logged in, live-update connection
\* open, with a listing of more than one page, under the "all statuses"
\* filter: the cache key changes with the page (SetSelectedStatus
\* changes it the same way and is left to a specification of the filtered
\* listing)
Next ==
  \/ Requests
  \/ \E k \in Keys : FetchError(k)
  \/ PrevPage
  \/ NextPage

Spec == Init /\ [][Next]_vars

\* the same view when no listing request fails: every request on the network
\* is answered and its response arrives, the callback chains run on, and the
\* timers fire; clicks and live-update messages may stop at any time
NextLive ==
  \/ Requests
  \/ PrevPage
  \/ NextPage

Fairness ==
  /\ \A m \in 1..MaxMut : WF_vars(MutationFn(m))
  /\ \A m \in 1..MaxMut : WF_vars(ServerApply(m))
  /\ \A m \in 1..MaxMut : WF_vars(Resolve(m))
  /\ \A m \in 1..MaxMut : WF_vars(Settle(m))
  /\ \A k \in Keys : WF_vars(FetchServe(k))
  /\ \A k \in Keys : SF_vars(FetchResponse(k))

SpecLive == Init /\ [][NextLive]_vars /\ Fairness

\* ======================================================================
\* Session, routes and live-update connections
\* ======================================================================
HttpErrors == {401, 500}
LoginFailures == {200, 401, 500}

\* a response interceptor that navigates and leaves the stored session
ResponseErrorKeepsStorage(status) ==
  IF status = 401
  THEN storage' = storage /\ navPending' = TRUE
  ELSE UNCHANGED <<storage, navPending>>

\* axios.interceptors.response.use: the error handler
ResponseError(status) ==
  IF status = 401
  THEN storage' = NoItem /\ navPending' = TRUE
  ELSE UNCHANGED <<storage, navPending>>

\* the document is loaded at route r: AuthProvider reads the stored session,
\* every timer, socket and request of the previous document is gone
LoadDocument(r) ==
  LET a == IF storage = NoItem THEN NoSession ELSE JSONParse(storage)
      orders == RouteElement(r, a.token # NoToken) = "OrdersPage"
  IN /\ authState' = a
     /\ authDirty' = TRUE
     /\ location' = r
     /\ navPending' = FALSE
     /\ loginForm' = [isLoading |-> FALSE, error |-> ""]
     /\ loginReq' = "none"
     /\ profileReq' = NoMerchant
     /\ ws' = [e \in 1..MaxEffects |-> NoSocket]
     /\ wsEffect' = 0
     /\ numEffects' = 0
     /\ currentPage' = 1
     /\ selectedStatus' = ""
     /\ pickupOrder' = NoOrder
     /\ cache' = [k \in Keys |-> Undefined]
     /\ fetch' = [k \in Keys |-> IF orders /\ k = FirstKey THEN Sent ELSE Idle]
     /\ zombie' = FALSE
     /\ muts' = <<>>
     /\ running' = 0
     /\ axiosAuth' = NoHeader
     /\ callAuth' = IF orders THEN Call(storage, NoHeader) ELSE NoCall
     /\ toast' = NoToast
     /\ food' = [food EXCEPT !.op = NoOp, !.error = "", !.alert = FALSE,
                              !.raised = FALSE]
     /\ UNCHANGED <<srvStatus, srvPay, storage, paging, profileForm>>

\* the address bar: the app is opened at a route
Load(r) == LoadDocument(r)

\* the navigation started by window.location.href = '/login' completes
Reload ==
  /\ navPending
  /\ LoadDocument("/login")

\* connectWebSocket
ConnectWebSocket(sock, token) ==
  IF token = NoToken THEN sock ELSE NewSocket(sock, token)

\* the cleanup of the live-update effect: if (ws) ws.close()
Cleanup(sock) ==
  IF sock.st \in {"connecting", "open"}
  THEN [sock EXCEPT !.st = "closing", !.inbox = "none"]
  ELSE sock

\* effects of the last commit that have not run yet (they run before the
\* next render, so an event that sets state finds none pending)
PendingEffects == authDirty \/ ((View = "OrdersPage") # (wsEffect # 0))

\* the persistence effect of AuthProvider
Persist(a) == IF a.token # NoToken THEN JSONStringify(a) ELSE NoItem

\* the passive effects of the last commit run: the live-update effect of the
\* orders view (set up or cleaned up) and the persistence effect
FlushEffects ==
  /\ PendingEffects
  /\ IF View = "OrdersPage" /\ wsEffect = 0
     THEN /\ numEffects' = numEffects + 1
          /\ wsEffect' = numEffects + 1
          /\ ws' = [ws EXCEPT ![numEffects + 1] = ConnectWebSocket(@, authState.token)]
     ELSE IF View # "OrdersPage" /\ wsEffect # 0
     THEN /\ ws' = [ws EXCEPT ![wsEffect] = Cleanup(@)]
          /\ wsEffect' = 0
          /\ UNCHANGED numEffects
     ELSE UNCHANGED <<ws, wsEffect, numEffects>>
  /\ storage' = IF authDirty THEN Persist(authState) ELSE storage
  /\ axiosAuth' = IF authDirty THEN DefaultHeader(authState) ELSE axiosAuth
  /\ authDirty' = FALSE
  /\ UNCHANGED <<viewVars, authState, location, navPending, loginForm, loginReq,
                 profileReq, callAuth, pageVars>>

\* <Navigate to="/login" /> of ProtectedRoute
NavigateEffect ==
  /\ View = "Navigate"
  /\ location' = "/login"
  /\ UNCHANGED <<viewVars, authState, storage, authDirty, navPending, loginForm,
                 loginReq, profileReq, ws, wsEffect, numEffects>>
  /\ UNCHANGED <<headerVars, pageVars>>

\* a NavLink of the layout; the orders view mounts with its initial state and
\* fetches its listing
GoTo(r) ==
  /\ View \in ProtectedViews
  /\ ~PendingEffects
  /\ r \in ProtectedRoutes
  /\ r # location
  /\ r = "/orders" => numEffects < MaxEffects
  /\ location' = r
  /\ IF r = "/orders"
     THEN /\ currentPage' = 1
          /\ selectedStatus' = ""
          /\ pickupOrder' = NoOrder
          /\ fetch' = FetchOnMount(fetch, FirstKey)
          /\ callAuth' = IF fetch'[FirstKey] # fetch[FirstKey]
                         THEN Call(storage, axiosAuth) ELSE callAuth
     ELSE UNCHANGED <<currentPage, selectedStatus, pickupOrder, fetch, callAuth>>
  /\ UNCHANGED <<srvStatus, srvPay, cache, zombie, muts, running, authState, storage,
                 authDirty, navPending, loginForm, loginReq, profileReq, ws, wsEffect,
                 numEffects, axiosAuth, pageVars>>

\* Layout.handleLogout: logout(); navigate('/login')
Logout ==
  /\ View \in ProtectedViews
  /\ ~PendingEffects
  /\ authState' = NoSession
  /\ authDirty' = TRUE
  /\ location' = "/login"
  /\ UNCHANGED <<viewVars, storage, navPending, loginForm, loginReq, profileReq, ws,
                 wsEffect, numEffects>>
  /\ UNCHANGED <<headerVars, pageVars>>

\* LoginPage.handleSubmit up to the request
SubmitLogin ==
  /\ View = "LoginPage"
  /\ ~PendingEffects
  /\ ~loginForm.isLoading
  /\ loginForm' = [isLoading |-> TRUE, error |-> ""]
  /\ loginReq' = "sent"
  /\ callAuth' = Call(storage, axiosAuth)
  /\ UNCHANGED <<viewVars, authState, storage, authDirty, location, navPending,
                 profileReq, ws, wsEffect, numEffects, axiosAuth, pageVars>>

\* login resolves with a token, a user and a merchant; handleSubmit navigates
LoginOk(t) ==
  /\ loginReq = "sent"
  /\ ~PendingEffects
  /\ authState' = LoginData(t)
  /\ authDirty' = TRUE
  /\ location' = "/"
  /\ loginForm' = [loginForm EXCEPT !.isLoading = FALSE]
  /\ loginReq' = "none"
  /\ UNCHANGED <<viewVars, storage, navPending, profileReq, ws, wsEffect, numEffects>>
  /\ UNCHANGED <<headerVars, pageVars>>

\* the message login throws
LoginErrorMessage(status) ==
  IF status = 401 THEN "Invalid email or password"
  ELSE "Login failed. Please check your credentials."

\* login fails: a 401 or another error status passes through the response
\* interceptor, a 200 without token, user or merchant does not; handleSubmit
\* shows the message
LoginRejected(status) ==
  /\ loginReq = "sent"
  /\ ResponseError(status)
  /\ loginForm' = [isLoading |-> FALSE, error |-> LoginErrorMessage(status)]
  /\ loginReq' = "none"
  /\ UNCHANGED <<viewVars, authState, authDirty, location, profileReq, ws, wsEffect,
                 numEffects>>
  /\ UNCHANGED <<headerVars, pageVars>>

\* ProfilePage.handleSubmit up to the request
SubmitProfile(v) ==
  /\ View = "ProfilePage"
  /\ ~PendingEffects
  /\ authState.merchant # NoMerchant
  /\ profileReq = NoMerchant
  /\ profileReq' = v
  /\ callAuth' = Call(storage, axiosAuth)
  /\ UNCHANGED <<viewVars, authState, storage, authDirty, location, navPending,
                 loginForm, loginReq, ws, wsEffect, numEffects, axiosAuth, pageVars>>

\* updateMerchantProfile resolves: setAuthState(prev => ({...prev, merchant}))
ProfileOk ==
  /\ profileReq # NoMerchant
  /\ ~PendingEffects
  /\ authState' = [authState EXCEPT !.merchant = profileReq]
  /\ authDirty' = TRUE
  /\ profileReq' = NoMerchant
  /\ UNCHANGED <<viewVars, storage, location, navPending, loginForm, loginReq, ws,
                 wsEffect, numEffects>>
  /\ UNCHANGED <<headerVars, pageVars>>

\* updateMerchantProfile fails
ProfileRejected(status) ==
  /\ profileReq # NoMerchant
  /\ ResponseError(status)
  /\ profileReq' = NoMerchant
  /\ UNCHANGED <<viewVars, authState, authDirty, location, loginForm, loginReq, ws,
                 wsEffect, numEffects>>
  /\ UNCHANGED <<headerVars, pageVars>>

\* a listing request is answered with 401
FetchUnauthorized(k) ==
  /\ running = 0
  /\ fetch[k].st = "sent"
  /\ ResponseError(401)
  /\ fetch' = [fetch EXCEPT ![k] = Idle]
  /\ UNCHANGED <<srvStatus, srvPay, currentPage, selectedStatus, pickupOrder, cache,
                 zombie, muts, running, authState, authDirty, location, loginForm,
                 loginReq, profileReq, ws, wsEffect, numEffects>>
  /\ UNCHANGED <<headerVars, pageVars>>

\* the connection of instance e is established
WsOpen(e) ==
  /\ ws[e].st = "connecting"
  /\ ws' = [ws EXCEPT ![e].st = "open"]
  /\ UNCHANGED <<viewVars, authState, storage, authDirty, location, navPending,
                 loginForm, loginReq, profileReq, wsEffect, numEffects>>
  /\ UNCHANGED <<headerVars, pageVars>>

\* ws.onerror: the connection failed; the handler logs
WsOnError(e) ==
  /\ ws[e].st \in {"connecting", "open"}
  /\ ws' = [ws EXCEPT ![e].st = "failed", ![e].inbox = "none"]
  /\ UNCHANGED <<viewVars, authState, storage, authDirty, location, navPending,
                 loginForm, loginReq, profileReq, wsEffect, numEffects>>
  /\ UNCHANGED <<headerVars, pageVars>>

\* a close handler that sets no timer
OnCloseNoReconnect(sock) == [sock EXCEPT !.st = "closed", !.inbox = "none"]

\* ws.onclose: setTimeout(connectWebSocket, 5000)
OnClose(sock) ==
  [sock EXCEPT !.st = "closed", !.inbox = "none",
               !.timers = Append(@, ReconnectDelay)]

\* the close event of the socket of instance e: the peer closed it, it failed,
\* or the cleanup called close()
WsOnClose(e) ==
  /\ ws[e].st \in {"open", "failed", "closing"}
  /\ ws' = [ws EXCEPT ![e] = OnClose(@)]
  /\ UNCHANGED <<viewVars, authState, storage, authDirty, location, navPending,
                 loginForm, loginReq, profileReq, wsEffect, numEffects>>
  /\ UNCHANGED <<headerVars, pageVars>>

\* the backend sends a message on the connection of instance e
WsSend(e, type) ==
  /\ ws[e].st = "open"
  /\ ws[e].inbox = "none"
  /\ ws' = [ws EXCEPT ![e].inbox = type]
  /\ UNCHANGED <<viewVars, authState, storage, authDirty, location, navPending,
                 loginForm, loginReq, profileReq, wsEffect, numEffects>>
  /\ UNCHANGED <<headerVars, pageVars>>

\* the message event of the socket of instance e: ws.onmessage
WsDeliver(e) ==
  /\ running = 0
  /\ ws[e].st = "open"
  /\ ws[e].inbox # "none"
  /\ fetch' = OnMessage(ws[e].inbox)
  /\ ws' = [ws EXCEPT ![e].inbox = "none"]
  /\ UNCHANGED <<srvStatus, srvPay, currentPage, selectedStatus, pickupOrder, cache,
                 zombie, muts, running, authState, storage, authDirty, location,
                 navPending, loginForm, loginReq, profileReq, wsEffect, numEffects>>
  /\ UNCHANGED <<headerVars, pageVars>>

WsTimeSteps == {2500}

\* the reconnect timers that are set
WsTimers == {<<e, i>> \in (1..MaxEffects) \X (1..MaxAttempts) : i \in DOMAIN ws[e].timers}

\* time passes, not beyond a reconnect timer that is due
WsAdvance(d) ==
  /\ WsTimers # {}
  /\ \A x \in WsTimers : ws[x[1]].timers[x[2]] >= d
  /\ ws' = [e \in 1..MaxEffects |->
              [ws[e] EXCEPT !.timers = [i \in DOMAIN @ |-> @[i] - d]]]
  /\ UNCHANGED <<viewVars, authState, storage, authDirty, location, navPending,
                 loginForm, loginReq, profileReq, wsEffect, numEffects>>
  /\ UNCHANGED <<headerVars, pageVars>>

\* a reconnect timer of instance e is due: connectWebSocket runs with the
\* token of the render that set the effect up
WsReconnect(e) ==
  /\ ws[e].timers # <<>>
  /\ Head(ws[e].timers) = 0
  /\ ws' = [ws EXCEPT ![e] =
              ConnectWebSocket([@ EXCEPT !.timers = Tail(@)], @.token)]
  /\ UNCHANGED <<viewVars, authState, storage, authDirty, location, navPending,
                 loginForm, loginReq, profileReq, wsEffect, numEffects>>
  /\ UNCHANGED <<headerVars, pageVars>>

\* the app is opened at the login view by a merchant with no stored session
InitSession ==
  /\ srvStatus = [i \in AllOrders |-> IF i \in Tracked THEN InitialStatus(i)
                                      ELSE "PICKED_UP"]
  /\ srvPay = [i \in AllOrders |-> IF i \in Tracked THEN "PENDING" ELSE "PAID"]
  /\ currentPage = 1
  /\ selectedStatus = ""
  /\ pickupOrder = NoOrder
  /\ cache = [k \in Keys |-> Undefined]
  /\ fetch = [k \in Keys |-> Idle]
  /\ zombie = FALSE
  /\ muts = <<>>
  /\ running = 0
  /\ authState = NoSession
  /\ storage = NoItem
  /\ authDirty = TRUE
  /\ location = "/login"
  /\ navPending = FALSE
  /\ loginForm = [isLoading |-> FALSE, error |-> ""]
  /\ loginReq = "none"
  /\ profileReq = NoMerchant
  /\ ws = [e \in 1..MaxEffects |-> NoSocket]
  /\ wsEffect = 0
  /\ numEffects = 0
  /\ axiosAuth = NoHeader
  /\ callAuth = NoCall
  /\ toast = NoToast
  /\ food = NoFood
  /\ paging = NoPaging
  /\ profileForm = NoProfileForm

\* the routes the merchant moves between in the specification of the
\* live-update connections
WsRoutes == {"/", "/orders"}

\* the orders view, mounted and unmounted by login, navigation and logout, and
\* the live-update connections its effect opens (the order mutations are the
\* subject of Spec, failed logins and 401 responses of SpecAuth)
NextWs ==
  \/ FlushEffects
  \/ \E r \in WsRoutes : GoTo(r)
  \/ Logout
  \/ SubmitLogin
  \/ \E t \in Tokens : LoginOk(t)
  \/ \E k \in Keys : FetchServe(k)
  \/ \E k \in Keys : FetchResponse(k)
  \/ \E e \in 1..MaxEffects : WsOpen(e)
  \/ \E e \in 1..MaxEffects : WsOnError(e)
  \/ \E e \in 1..MaxEffects : WsOnClose(e)
  \/ \E e \in 1..MaxEffects, type \in MessageTypes : WsSend(e, type)
  \/ \E e \in 1..MaxEffects : WsDeliver(e)
  \/ \E d \in WsTimeSteps : WsAdvance(d)
  \/ \E e \in 1..MaxEffects : WsReconnect(e)

SpecWs == InitSession /\ [][NextWs]_vars

\* the session: login, logout, profile update, 401 responses, the routes and
\* the reload the response interceptor starts (the events of the live-update
\* connections are the subject of SpecWs)
NextAuth ==
  \/ \E r \in AppRoutes : Load(r)
  \/ Reload
  \/ FlushEffects
  \/ NavigateEffect
  \/ \E r \in ProtectedRoutes : GoTo(r)
  \/ Logout
  \/ SubmitLogin
  \/ \E t \in Tokens : LoginOk(t)
  \/ \E status \in LoginFailures : LoginRejected(status)
  \/ \E v \in Merchants : SubmitProfile(v)
  \/ ProfileOk
  \/ \E status \in HttpErrors : ProfileRejected(status)
  \/ \E k \in Keys : FetchServe(k)
  \/ \E k \in Keys : FetchResponse(k)
  \/ \E k \in Keys : FetchUnauthorized(k)

SpecAuth == InitSession /\ [][NextAuth]_vars

\* ======================================================================
\* The menu: food items
\* ======================================================================
\* the document was loaded at route r by a merchant whose session is stored
\* (the state LoadDocument leads to); the menu, the pagination controls and
\* the profile form are set by the specification
LoggedInAt(r) ==
  /\ srvStatus = [i \in AllOrders |-> IF i \in Tracked THEN InitialStatus(i)
                                      ELSE "PICKED_UP"]
  /\ srvPay = [i \in AllOrders |-> IF i \in Tracked THEN "PENDING" ELSE "PAID"]
  /\ currentPage = 1
  /\ selectedStatus = ""
  /\ pickupOrder = NoOrder
  /\ cache = [k \in Keys |-> Undefined]
  /\ fetch = [k \in Keys |-> IF r = "/orders" /\ k = FirstKey THEN Sent ELSE Idle]
  /\ zombie = FALSE
  /\ muts = <<>>
  /\ running = 0
  /\ authState = LoginData(1)
  /\ storage = JSONStringify(LoginData(1))
  /\ authDirty = TRUE
  /\ location = r
  /\ navPending = FALSE
  /\ loginForm = [isLoading |-> FALSE, error |-> ""]
  /\ loginReq = "none"
  /\ profileReq = NoMerchant
  /\ ws = [e \in 1..MaxEffects |-> NoSocket]
  /\ wsEffect = 0
  /\ numEffects = 0
  /\ axiosAuth = NoHeader
  /\ callAuth = IF r = "/orders" THEN Call(JSONStringify(LoginData(1)), NoHeader)
                ELSE NoCall
  /\ toast = NoToast

FoodIds == 1..NumFood

\* the callers of the food item API: the hook useFoodItems, the item form
\* and the delete button of the menu page
FoodCallers == {"hook", "modal", "page"}

\* the operations each caller has
FoodKinds(via) ==
  CASE via = "hook" -> {"create", "update", "delete"}
    [] via = "modal" -> {"create", "update"}
    [] via = "page" -> {"delete"}

\* the item list after the operation succeeded: an item is 0 when absent and
\* its revision otherwise
ItemsAfter(items, op) ==
  CASE op.kind = "create" -> [items EXCEPT ![op.id] = 1]
    [] op.kind = "update" -> [items EXCEPT ![op.id] = @ + 1]
    [] op.kind = "delete" -> [items EXCEPT ![op.id] = 0]

\* a create, update or delete is started: createItem, updateItem, deleteItem
\* of the hook, handleSubmit of the item form, handleDelete of the menu page
\* once confirmed
FoodStart(via, kind, id) ==
  /\ via \in {"modal", "page"} => View = "FoodItemsPage"
  /\ food.op = NoOp
  /\ kind \in FoodKinds(via)
  /\ IF kind = "create" THEN food.items[id] = 0 ELSE food.items[id] > 0
  /\ kind = "update" => food.items[id] < MaxRev
  /\ food' = [food EXCEPT !.op = [via |-> via, kind |-> kind, id |-> id],
                          !.error = "", !.alert = FALSE, !.raised = FALSE]
  /\ UNCHANGED <<viewVars, sessionVars, headerVars, toast, paging, profileForm>>

\* the operation succeeds: the hook updates its list and toasts, the form
\* and the page invalidate the menu query, which refetches
FoodOk ==
  /\ food.op # NoOp
  /\ food' = [food EXCEPT !.items = ItemsAfter(@, food.op), !.op = NoOp]
  /\ toast' = IF food.op.via = "hook" THEN "success" ELSE toast
  /\ UNCHANGED <<viewVars, sessionVars, headerVars, paging, profileForm>>

\* the catch block of the caller: what it leaves of the failure
FoodCatch(f, via) ==
  CASE via = "hook" -> [f EXCEPT !.raised = TRUE]
    [] via = "modal" -> [f EXCEPT !.error = "Failed to save food item"]
    [] via = "page" -> [f EXCEPT !.alert = TRUE]

\* the operation fails: the hook toasts and throws the error on, the form
\* shows the message inline, the page logs it and opens an alert box
FoodFailed ==
  /\ food.op # NoOp
  /\ food' = [FoodCatch(food, food.op.via) EXCEPT !.op = NoOp]
  /\ toast' = IF food.op.via = "hook" THEN "destructive" ELSE toast
  /\ UNCHANGED <<viewVars, sessionVars, headerVars, paging, profileForm>>

\* the toast times out
DismissToast ==
  /\ toast # NoToast
  /\ toast' = NoToast
  /\ UNCHANGED <<viewVars, sessionVars, headerVars, food, paging, profileForm>>

\* the menu page of a logged-in merchant, for every menu of NumFood items
InitFood ==
  /\ LoggedInAt("/food-items")
  /\ food \in {[NoFood EXCEPT !.items = i] : i \in [FoodIds -> 0..1]}
  /\ paging = NoPaging
  /\ profileForm = NoProfileForm

NextFood ==
  \/ \E via \in FoodCallers, kind \in {"create", "update", "delete"}, id \in FoodIds :
       FoodStart(via, kind, id)
  \/ FoodOk
  \/ FoodFailed
  \/ DismissToast

SpecFood == InitFood /\ [][NextFood]_vars

\* ======================================================================
\* The pagination controls
\* ======================================================================
\* the pagination controls the view draws for a listing response and a page
Controls(data, page) ==
  IF ShowsPagination(data)
  THEN [shown |-> TRUE, current |-> page, pages |-> PageCount(data.total),
        prevDisabled |-> PrevDisabled(page),
        nextDisabled |-> NextDisabled(data, page),
        nextDisabledCopy |-> NextDisabledCopy(data, page)]
  ELSE NoControls

\* a listing response with a total
Listing(total) == [defined |-> TRUE, orders |-> <<>>, total |-> total]

\* the view renders
DrawPagination ==
  /\ ~paging.drawn
  /\ paging' = [paging EXCEPT !.drawn = TRUE,
                              !.controls = Controls(paging.data, paging.page)]
  /\ UNCHANGED <<viewVars, sessionVars, headerVars, toast, food, profileForm>>

\* the view renders at page p
PagingAt(p) == [paging EXCEPT !.page = p, !.controls = Controls(paging.data, p)]

\* the previous control is clicked
PagingPrev ==
  /\ paging.drawn
  /\ paging.controls.shown
  /\ ~paging.controls.prevDisabled
  /\ paging' = PagingAt(Max(1, paging.page - 1))
  /\ UNCHANGED <<viewVars, sessionVars, headerVars, toast, food, profileForm>>

\* the next control is clicked
PagingNext ==
  /\ paging.drawn
  /\ paging.controls.shown
  /\ ~paging.controls.nextDisabled
  /\ paging' = PagingAt(Min(PageCount(paging.data.total), paging.page + 1))
  /\ UNCHANGED <<viewVars, sessionVars, headerVars, toast, food, profileForm>>

\* the orders view with the listing still loading or loaded with a total of
\* 0..MaxTotal orders, at page 1
InitPaging ==
  /\ LoggedInAt("/orders")
  /\ paging \in {[NoPaging EXCEPT !.data = d] :
                   d \in {Undefined} \cup {Listing(t) : t \in 0..MaxTotal}}
  /\ food = NoFood
  /\ profileForm = NoProfileForm

NextPaging ==
  \/ DrawPagination
  \/ PagingPrev
  \/ PagingNext

SpecPaging == InitPaging /\ [][NextPaging]_vars

\* ======================================================================
\* The profile form: validation of the phone field
\* ======================================================================
\* \d
Digits == {"0", "1", "2", "3", "4", "5", "6", "7", "8", "9"}

\* [1-9]
NonZeroDigits == Digits \ {"0"}

\* the positions the pattern can be at after \+? read from position 1
AfterPlus(s) == {1} \cup (IF Len(s) >= 1 /\ s[1] = "+" THEN {2} ELSE {})

\* the pattern without the end anchor: a prefix of the value matches
PhoneRegexUnanchored(s) ==
  \E i \in AfterPlus(s), n \in 7..14 :
    /\ i + n <= Len(s)
    /\ s[i] \in NonZeroDigits
    /\ \A j \in (i + 1)..(i + n) : s[j] \in Digits

\* /^\+?[1-9]\d{7,14}$/.test(s): after the optional plus, one character of
\* [1-9], then n characters of \d for some n in 7..14, then the end of the
\* value
PhoneRegex(s) ==
  \E i \in AfterPlus(s), n \in 7..14 :
    /\ i + n = Len(s)
    /\ s[i] \in NonZeroDigits
    /\ \A j \in (i + 1)..(i + n) : s[j] \in Digits

\* profileSchema.parse for a form whose other fields are valid: the message
\* of the first issue, "" when there is none
ProfileSchemaParse(phone) ==
  IF PhoneRegex(phone) THEN "" ELSE "Invalid phone number format"

\* ProfilePage.handleSubmit: the form is validated, the request is sent when
\* validation passes and the message is shown when it does not
SubmitProfileForm(v) ==
  LET message == ProfileSchemaParse(profileForm.phone)
  IN /\ View = "ProfilePage"
     /\ ~PendingEffects
     /\ authState.merchant # NoMerchant
     /\ profileReq = NoMerchant
     /\ ~profileForm.submitted
     /\ profileForm' = [profileForm EXCEPT !.error = message, !.submitted = TRUE]
     /\ profileReq' = IF message = "" THEN v ELSE NoMerchant
     /\ callAuth' = IF message = "" THEN Call(storage, axiosAuth) ELSE callAuth
     /\ UNCHANGED <<viewVars, authState, storage, authDirty, location, navPending,
                    loginForm, loginReq, ws, wsEffect, numEffects, axiosAuth, toast,
                    food, paging>>

\* the values typed into the phone field: up to two plus signs, a first
\* character, up to MaxDigits digits, and one character of the value
\* replaced or one appended
PhoneDigit(i) == <<"0", "5", "9", "2">>[(i % 4) + 1]

PhonePrefixes == {<<>>, <<"+">>, <<"+", "+">>}

PhoneFirsts == {<<>>, <<"0">>, <<"1">>, <<"9">>, <<"a">>}

PhoneValue(prefix, first, n) == prefix \o first \o [i \in 1..n |-> PhoneDigit(i)]

Spoil(s, k, c) ==
  IF k = 0 THEN s
  ELSE IF k <= Len(s) THEN [s EXCEPT ![k] = c]
  ELSE Append(s, c)

Phones ==
  {Spoil(PhoneValue(prefix, first, n), k, c) :
     prefix \in PhonePrefixes, first \in PhoneFirsts, n \in 0..MaxDigits,
     k \in 0..(MaxDigits + 4), c \in {"a", "+", " ", "7"}}
  \cup {<<"1", "2", "3">>,
        <<"+", "1", "2", "0", "2", "5", "5", "5", "0", "1", "2", "3">>}

\* the profile view of a logged-in merchant with a value in the phone field
InitPhone ==
  /\ LoggedInAt("/profile")
  /\ profileForm \in {[NoProfileForm EXCEPT !.phone = s] : s \in Phones}
  /\ food = NoFood
  /\ paging = NoPaging

NextPhone ==
  \/ FlushEffects
  \/ \E v \in Merchants : SubmitProfileForm(v)

SpecPhone == InitPhone /\ [][NextPhone]_vars

\* ======================================================================
\* The orders view under the status filter
\* ======================================================================
\* the orders view with the status filter, the pagination controls and the
\* refetches started by live-update messages, when no order is acted upon
\* (the mutations are the subject of Spec)
NextFilter ==
  \/ \E status \in FilterValues : SetSelectedStatus(status)
  \/ PrevPage
  \/ NextPage
  \/ \E k \in Keys : FetchServe(k)
  \/ \E k \in Keys : FetchResponse(k)
  \/ \E k \in Keys : FetchError(k)
  \/ \E t \in MessageTypes : WsOnMessage(t)

SpecFilter == Init /\ [][NextFilter]_vars

\* ======================================================================
\* Properties
\* ======================================================================
StatusMuts == {m \in DOMAIN muts : muts[m].kind = "status"}
PaymentMuts == {m \in DOMAIN muts : muts[m].kind = "payment"}

\* the status mutations started on an order
StartedOn(o) == {m \in StatusMuts : muts[m].orderId = o}

\* the cached order `o` of entry k, as the set of records with that id
Cached(k, o) == {order \in Shown(k) : order.id = o}

\* C1: in every reachable state no cached order list shows, for an order with
\* a status mutation in flight, a status other than the target of that
\* mutation (orders on which a second status mutation was started, the race
\* of two targets on one order, are left aside).
C1_NeverContradictsInFlight ==
  \A k \in Keys : \A o \in Tracked : \A m \in StartedOn(o) :
    (InFlight(m) /\ StartedOn(o) = {m}) =>
      \A order \in Cached(k, o) : order.status = muts[m].status

\* C2: once the failure handler of a status mutation has run, the cache entry
\* that mutation patched equals the snapshot it took before patching.
C2_RollbackRestoresSnapshot ==
  \A m \in StatusMuts :
    muts[m].phase = "error" => cache[muts[m].key] = muts[m].snapshot

\* C3: when onMutate of a status mutation has run and its request is about to
\* be dispatched, the order with the mutation's id in the cache entry of the
\* page and filter it started under carries the target status.
C3_PatchedBeforeDispatch ==
  \A m \in StatusMuts :
    muts[m].phase = "onMutate" =>
      /\ Cached(muts[m].key, muts[m].orderId) # {}
      /\ \A order \in Cached(muts[m].key, muts[m].orderId) :
           order.status = muts[m].status

\* C3 witness: the request of a CONFIRMED mutation is about to be dispatched
\* for an order the snapshot holds as PENDING.
C3_Witness ==
  \E m \in StatusMuts :
    /\ muts[m].phase = "onMutate"
    /\ muts[m].status = "CONFIRMED"
    /\ \E i \in DOMAIN muts[m].snapshot.orders :
         /\ muts[m].snapshot.orders[i].id = muts[m].orderId
         /\ muts[m].snapshot.orders[i].status = "PENDING"

\* C4: the step in which the failure handler of a status mutation runs writes
\* the snapshot to the cache entry of the page and filter the mutation started
\* under and leaves every other cache entry as it was.
C4_RollbackToStartKey ==
  [][\A m \in StatusMuts :
       (muts[m].phase = "sent" /\ muts'[m].phase = "error") =>
         /\ cache'[muts[m].key] = muts[m].snapshot
         /\ \A k \in Keys \ {muts[m].key} : cache'[k] = cache[k]]_vars

\* C5: when onMutate of a status mutation has run no fetch of the order list
\* is in flight any more, and the arrival of the response of a listing request
\* that was in flight when a status mutation started leaves the cache as it is.
C5_CancelledRefetchNeverWrites ==
  [][/\ (running' # 0 /\ muts'[running'].kind = "status"
          /\ muts'[running'].phase = "onMutate")
          => \A k \in Keys : ~Fetching(fetch', k)
     /\ ((zombie /\ ~zombie')
          \/ \E k \in Keys : fetch[k].preMut /\ fetch[k].st = "served"
                              /\ fetch'[k].st = "idle")
          => cache' = cache]_vars

\* C5 witness: a listing request was cancelled by a status mutation whose
\* optimistic status is in the cache while the request is still on the network.
C5_Witness ==
  /\ zombie
  /\ \E m \in StatusMuts :
       /\ InFlight(m)
       /\ cache[muts[m].key] # muts[m].snapshot

\* C6: a status mutation is finished only together with the invalidation of
\* the order list, after a success as after a failure; the invalidation leaves
\* a fetch of the displayed listing in flight, and it runs in a step after the
\* one of the success or failure callback.
C6_InvalidatesWhenSettled ==
  [][\A m \in StatusMuts :
       /\ (muts[m].phase # "done" /\ muts'[m].phase = "done")
            => (muts'[m].invalidated /\ Fetching(fetch', CurKey))
       /\ (~muts[m].invalidated /\ muts'[m].invalidated)
            => (muts[m].phase \in {"success", "error"}
                /\ muts[m].outcome \in {"ok", "err"})]_vars

\* C6 witness: a status mutation that failed is finished and has invalidated.
C6_Witness ==
  \E m \in StatusMuts :
    muts[m].phase = "done" /\ muts[m].outcome = "err" /\ muts[m].invalidated

\* the displayed listing equals what the backend would return for it now
InSync == cache[CurKey].defined /\ cache[CurKey] = GetOrders(CurKey)

\* C7: when every listing request is answered and none fails, every state in
\* which a status or payment mutation has succeeded is followed by a point from
\* which on the displayed order list equals the backend's listing (the bound
\* on the mutations makes them stop).
C7_EventuallyServerState ==
  (\E m \in DOMAIN muts : muts[m].outcome = "ok") ~> []InSync

\* C8: while a payment confirmation is in flight the order it is for shows
\* paymentStatus PAID in the cached order list.
C8_PaymentOptimistic ==
  \A m \in PaymentMuts :
    InFlight(m) =>
      \A order \in Cached(muts[m].key, muts[m].orderId) : order.paymentStatus = "PAID"

\* C9: a payment confirmation that is finished has invalidated the order list,
\* whether its request succeeded or failed.
C9_PaymentInvalidatesWhenSettled ==
  \A m \in PaymentMuts : muts[m].phase = "done" => muts[m].invalidated

\* C10: from the start of a PICKED_UP mutation that succeeds until 2000 ms
\* later the removal marker is on its order (whatever mutations of other
\* orders do in that time).
C10_MarkerHeldForPickupDelay ==
  \A m \in StatusMuts :
    (/\ muts[m].status = "PICKED_UP"
     /\ muts[m].outcome = "ok"
     /\ muts[m].timer > 0
     /\ StartedOn(muts[m].orderId) = {m})
      => pickupOrder = muts[m].orderId

\* C11: the step in which the failure handler of a PICKED_UP mutation runs
\* ends with no removal marker set, whatever is left of the 2000 ms, and the
\* step in which the timer of a failed PICKED_UP mutation expires ends with no
\* removal marker set either.
C11_MarkerClearedOnFailure ==
  [][\A m \in StatusMuts :
       muts[m].status = "PICKED_UP" =>
         /\ (muts[m].phase = "sent" /\ muts'[m].phase = "error")
              => pickupOrder' = NoOrder
         /\ (muts[m].outcome = "err" /\ muts[m].timer = 0 /\ muts'[m].timer = -1)
              => pickupOrder' = NoOrder]_vars

\* C11 witness: a PICKED_UP mutation has failed, its timer has time left and
\* no removal marker is set.
C11_Witness ==
  \E m \in StatusMuts :
    /\ muts[m].status = "PICKED_UP"
    /\ muts[m].outcome = "err"
    /\ muts[m].timer > 0
    /\ pickupOrder = NoOrder

\* the instances of the live-update effect
Instances == 1..MaxEffects

\* the step is a call of new WebSocket by instance e
Connects(e) ==
  /\ ws'[e].st = "connecting"
  /\ ws[e].st # "connecting"

\* C12: once the cleanup of an instance of the live-update effect has run, no
\* connection is opened for that instance any more: every call of new
\* WebSocket is made by the instance that is set up at that moment.
C12_NoReconnectAfterTeardown ==
  [][\A e \in Instances : Connects(e) => wsEffect' = e]_vars

\* C13: for the instance of the effect that is set up, a close event finds no
\* reconnect timer pending and sets exactly one, of 5000 ms, whatever the
\* number of earlier attempts; an error event sets none; and a connection is
\* opened again only when such a timer is due.
C13_OneReconnectPerClose ==
  [][\A e \in Instances :
       (e = wsEffect /\ e = wsEffect') =>
         /\ (ws[e].st # "closed" /\ ws'[e].st = "closed")
              => /\ ws[e].timers = <<>>
                 /\ ws'[e].timers = <<ReconnectDelay>>
         /\ (ws[e].st # "failed" /\ ws'[e].st = "failed")
              => ws'[e].timers = ws[e].timers
         /\ (Connects(e) /\ ws[e].st # "none")
              => /\ ws[e].timers # <<>>
                 /\ Head(ws[e].timers) = 0
                 /\ ws'[e].timers = <<>>]_vars

\* C13 witness: the connection of the mounted orders view failed, was closed,
\* was opened again after the delay and is closed again with a timer of the
\* same 5000 ms.
C13_Witness ==
  /\ wsEffect # 0
  /\ ws[wsEffect].st = "closed"
  /\ ws[wsEffect].attempt = MaxAttempts
  /\ ws[wsEffect].timers = <<ReconnectDelay>>

\* C14: in every reachable state at most one live-update connection is open
\* or being opened.
C14_AtMostOneConnection ==
  Cardinality({e \in Instances : Live(ws[e])}) <= 1

\* C15: every call of new WebSocket is made while the session holds a token
\* and passes that token.
C15_ConnectsWithSessionToken ==
  [][\A e \in Instances :
       Connects(e) => /\ authState'.token # NoToken
                      /\ ws'[e].token = authState'.token]_vars

\* the step is the message event of the socket of instance e
Delivers(e) ==
  /\ ws[e].st = "open"
  /\ ws[e].inbox # "none"
  /\ ws'[e].st = "open"
  /\ ws'[e].inbox = "none"

\* C16: the message event of a live-update connection leaves the cached
\* listings as they are; a message of type ORDER_UPDATED invalidates (the
\* listing the orders view displays is fetched again), a message of another
\* type leaves the fetches, the connections and the reconnect timers as they
\* are.
C16_OnlyOrderUpdatedInvalidates ==
  [][\A e \in Instances :
       Delivers(e) =>
         /\ cache' = cache
         /\ ws' = [ws EXCEPT ![e].inbox = "none"]
         /\ ws[e].inbox = "ORDER_UPDATED"
              => fetch' = IF View = "OrdersPage"
                          THEN InvalidateQueries(fetch, cache, CurKey) ELSE fetch
         /\ (ws[e].inbox = "ORDER_UPDATED" /\ View = "OrdersPage"
               /\ cache[CurKey].defined)
              => fetch'[CurKey] = Sent
         /\ ws[e].inbox # "ORDER_UPDATED" => fetch' = fetch]_vars

\* C16 witness: the orders view is mounted for the first time in this
\* document, its listing has arrived and is being fetched again.
C16_Witness ==
  /\ numEffects = 1
  /\ wsEffect = 1
  /\ View = "OrdersPage"
  /\ ws[1].st = "open"
  /\ ws[1].inbox = "none"
  /\ cache[CurKey].defined
  /\ Fetching(fetch, CurKey)

\* the step is a 401 response to the login call, to the profile update or to
\* a listing request
Unauthorized ==
  \/ LoginRejected(401)
  \/ ProfileRejected(401)
  \/ \E k \in Keys : FetchUnauthorized(k)

\* C17: whatever the session was, the step of a 401 response ends with no
\* stored session and with the navigation to the login view started, and the
\* call has failed for its caller: the session in memory is not replaced, a
\* login shows its error, a listing request stores nothing.
C17_UnauthorizedClearsStorage ==
  [][Unauthorized =>
       /\ storage' = NoItem
       /\ navPending'
       /\ authState' = authState
       /\ cache' = cache
       /\ loginReq = "sent" /\ loginReq' = "none" => loginForm'.error # ""]_vars

\* C17 witness: a 401 response arrived while a session was stored and in
\* memory.
C17_Witness ==
  /\ navPending
  /\ storage = NoItem
  /\ authState.token # NoToken

\* the step is the failure of a login attempt for invalid credentials
InvalidCredentials ==
  /\ loginReq = "sent"
  /\ loginReq' = "none"
  /\ loginForm'.error = LoginErrorMessage(401)

\* C18: the step in which a login attempt fails for invalid credentials
\* leaves the session in memory and the stored session as they were and ends
\* with the error shown on the login view.
C18_FailedLoginLeavesSession ==
  [][InvalidCredentials =>
       /\ authState' = authState
       /\ storage' = storage
       /\ View' = "LoginPage"
       /\ loginForm'.error # ""]_vars

\* C19: when the persistence effect is not pending, a session is stored
\* exactly when the session in memory holds a token, and the stored session
\* reads back as the session in memory.
C19_StorageMirrorsMemory ==
  ~authDirty =>
    /\ (storage # NoItem) <=> (authState.token # NoToken)
    /\ storage # NoItem => JSONParse(storage) = authState

\* C20: the session is authenticated exactly when it holds a token, a
\* protected view is on screen only with a token, and a protected route
\* without a token renders the redirect to the login view.
C20_ProtectedOnlyWithToken ==
  /\ IsAuthenticated <=> authState.token \in Tokens
  /\ View \in ProtectedViews => authState.token \in Tokens
  /\ (location \in ProtectedRoutes /\ authState.token = NoToken) => View = "Navigate"
  /\ (location \in ProtectedRoutes /\ authState.token \in Tokens)
       => View = PageOf(location)

\* C20 witness: the app was opened at the orders route with no stored session.
C20_Witness ==
  /\ location = "/orders"
  /\ authState.token = NoToken
  /\ storage = NoItem
  /\ View = "Navigate"

\* the step issues an API call: the login form or the profile form is
\* submitted, or the orders view mounts and requests its listing
IssuesCall ==
  \/ SubmitLogin
  \/ \E v \in Merchants : SubmitProfile(v)
  \/ (\E r \in AppRoutes : Load(r)) /\ fetch'[FirstKey] = Sent
  \/ GoTo("/orders") /\ fetch'[FirstKey] # fetch[FirstKey]

\* C21: a call issued while the stored session holds a token carries that
\* token, as read from storage when the call is issued, as its bearer
\* Authorization header.
C21_CallCarriesStoredToken ==
  [][(IssuesCall /\ storage # NoItem /\ JSONParse(storage).token # NoToken) =>
       callAuth' = [issued |-> TRUE,
                    authorization |-> Bearer(JSONParse(storage).token)]]_vars

\* C21 witness: the document was loaded at the orders route with a stored
\* session; the listing call carries the stored token although the default
\* header is not set yet.
C21_Witness ==
  /\ callAuth.issued
  /\ storage # NoItem
  /\ callAuth.authorization = Bearer(JSONParse(storage).token)
  /\ axiosAuth = NoHeader

\* the step is the failure of a food item operation
FoodFails == food.op # NoOp /\ FoodFailed

\* C22: the step in which a create, update or delete of a food item fails
\* leaves the item list as it was, puts up a toast and re-raises the error
\* to the caller.
C22_FoodFailureToastAndRaise ==
  [][FoodFails =>
       /\ food'.items = food.items
       /\ toast' = "destructive"
       /\ food'.raised]_vars

\* the step is the failure of a listing request
ListingFails == \E k \in Keys : FetchError(k)

\* C23: the step in which a listing request fails puts up a toast and leaves
\* the cached listings as they were.
C23_QueryFailureToast ==
  [][ListingFails => (toast' # NoToast /\ cache' = cache)]_vars

\* C24: for a listing with total > 10 the controls are shown with the
\* current page and the page count ceil(total / 10) (total 25 at page 1:
\* "1 of 3"), previous is disabled exactly at page 1 and next is disabled on
\* the last page; for total <= 10 no controls are shown.
C24_PaginationControls ==
  paging.drawn /\ paging.data.defined =>
    LET total == paging.data.total
        c == paging.controls
    IN /\ total > 10 =>
            /\ c.shown
            /\ c.current = paging.page
            /\ c.pages * 10 >= total
            /\ (c.pages - 1) * 10 < total
            /\ c.prevDisabled <=> paging.page = 1
            /\ paging.page = c.pages => (c.nextDisabled /\ c.nextDisabledCopy)
       /\ (total = 25 /\ paging.page = 1) =>
            (c.current = 1 /\ c.pages = 3 /\ c.prevDisabled)
       /\ total <= 10 => ~c.shown

\* C24 witness: a listing of 25 orders is drawn at page 1 of 3.
C24_Witness ==
  /\ paging.drawn
  /\ paging.data = Listing(25)
  /\ paging.page = 1
  /\ paging.controls.shown
  /\ paging.controls.pages = 3

\* a phone value as the validation rule describes it: an optional plus, a
\* digit 1-9, then 7 to 14 digits
WellFormedPhone(s) ==
  LET body == IF Len(s) > 0 /\ s[1] = "+" THEN Tail(s) ELSE s
  IN /\ Len(body) >= 8
     /\ Len(body) <= 15
     /\ body[1] \in {"1", "2", "3", "4", "5", "6", "7", "8", "9"}
     /\ \A i \in 2..Len(body) :
          body[i] \in {"0", "1", "2", "3", "4", "5", "6", "7", "8", "9"}

\* C25: a submitted profile form passes validation (no message, the request
\* sent) exactly when its phone value is an optional plus, a digit 1-9 and 7
\* to 14 further digits; "123" is rejected and "+12025550123" is accepted.
C25_PhoneValidation ==
  profileForm.submitted =>
    /\ (profileForm.error = "") <=> WellFormedPhone(profileForm.phone)
    /\ (profileReq # NoMerchant) <=> WellFormedPhone(profileForm.phone)
    /\ profileForm.phone = <<"1", "2", "3">> => profileForm.error # ""
    /\ profileForm.phone =
         <<"+", "1", "2", "0", "2", "5", "5", "5", "0", "1", "2", "3">>
         => profileForm.error = ""

\* C25 witness: "+12025550123" was submitted and sent.
C25_Witness ==
  /\ profileForm.submitted
  /\ profileForm.phone = <<"+", "1", "2", "0", "2", "5", "5", "5", "0", "1", "2", "3">>
  /\ profileReq # NoMerchant

\* two values of a cache entry hold the same orders in the same places and the
\* same total
SameOrders(a, b) ==
  /\ a.defined = b.defined
  /\ a.total = b.total
  /\ Len(a.orders) = Len(b.orders)
  /\ \A i \in DOMAIN a.orders : a.orders[i].id = b.orders[i].id

\* the step is onMutate of status mutation m
PatchStep(m) ==
  /\ Len(muts) = m - 1
  /\ Len(muts') = m
  /\ muts'[m].kind = "status"

\* the step is the failure handler of status mutation m
RollbackStep(m) ==
  /\ m \in StatusMuts
  /\ muts[m].phase = "sent"
  /\ muts'[m].phase = "error"

\* C26: the optimistic patch and the rollback of a status mutation leave, in
\* every cache entry, the same orders in the same places and the same total;
\* the patch changes nothing but the status of the order with the mutation's
\* id, and nothing at all in an entry that holds no data.
C26_PatchAndRollbackKeepOrders ==
  [][\A m \in 1..MaxMut :
       /\ (PatchStep(m) \/ RollbackStep(m)) =>
            \A k \in Keys : SameOrders(cache[k], cache'[k])
       /\ PatchStep(m) =>
            \A k \in Keys :
              /\ ~cache[k].defined => cache'[k] = cache[k]
              /\ \A i \in DOMAIN cache[k].orders :
                   IF cache[k].orders[i].id = muts'[m].orderId
                   THEN [cache'[k].orders[i] EXCEPT !.status = cache[k].orders[i].status]
                          = cache[k].orders[i]
                   ELSE cache'[k].orders[i] = cache[k].orders[i]]_vars

\* the buttons can be clicked and a further mutation is within the bound
Ready == CanClick /\ Len(muts) < MaxMut

\* the merchant can invoke the status change / the payment confirmation
Offered(o, status) == ENABLED MutateStatus(o, status)
PaymentOffered(o) == ENABLED MutatePayment(o)

C28_SessionWholesale ==
  \/ authState = NoSession
  \/ /\ authState.token # NoToken
     /\ authState.user # NoMerchant
     /\ authState.merchant # NoMerchant

\* the cached list of entry k shows order o with the target of mutation m
\* (in c, the cache before or after a step)
ShowsTarget(c, k, m) ==
  \E i \in DOMAIN c[k].orders :
    /\ c[k].orders[i].id = muts[m].orderId
    /\ c[k].orders[i].status = muts[m].status

\* C29: when two status mutations on different orders were started under
\* the same cache key, which is still the key displayed, the step in which
\* the failure handler of the first runs while the second is in flight leaves
\* the second's optimistic status in the cached list.
C29_RollbackKeepsOtherPatch ==
  [][\A a \in StatusMuts : \A b \in StatusMuts :
       (/\ a < b
        /\ muts[a].orderId # muts[b].orderId
        /\ muts[a].key = muts[b].key
        /\ muts[a].key = CurKey
        /\ RollbackStep(a)
        /\ InFlight(b)
        /\ ShowsTarget(cache, muts[b].key, b))
       => ShowsTarget(cache', muts[b].key, b)]_vars

\* C30: the current page is within 1..max(1, ceil(total / 10)) of the
\* listing displayed.
C30_PageWithinListing ==
  cache[CurKey].defined =>
    /\ currentPage >= 1
    /\ currentPage <= Max(1, PageCount(cache[CurKey].total))

====
